---- MODULE Spec2Model ----
(***************************************************************************)
(* Model of pipe_server.py: the /pipeline endpoint (run_pipeline) and its  *)
(* stages stage_fetch_data, stage_process_item, mock_llm_analysis,         *)
(* stage_store_item and stage_notify.                                      *)
(*                                                                         *)
(* Text is a sequence of one-character strings, so that str.lower, the     *)
(* substring test `w in text`, str.split() and str.split('\n') are         *)
(* computed as Python computes them.  The datetime.utcnow() stamps are not *)
(* part of the state (no property below reads them).                       *)
(***************************************************************************)
EXTENDS Integers, Sequences, FiniteSets, TLC

VARIABLES
    runs,        \* the requests admitted in this behaviour
    pc,          \* pc[r]: where request r is inside run_pipeline
    email,       \* notification_email of request r            (line 115)
    raw_items,   \* raw_items of request r                     (line 121)
    idx,         \* position of the for loop of request r      (line 126)
    processed,   \* `processed` of the current iteration       (line 129)
    results,     \* results of request r                       (line 117)
    errors,      \* errors of request r                        (line 118)
    notified,    \* `notified` of request r                    (line 146)
    response,    \* what request r returned (status and body)
    rows,        \* table processed_posts of pipeline_data.db
    outbox,      \* what stage_notify printed, one entry per call
    log,         \* history: the stage calls request r made, in order
    text,        \* analyzer harness: the argument of mock_llm_analysis
    analysis,    \* analyzer harness: what mock_llm_analysis did with it
    schema,      \* the tables of pipeline_data.db, in creation order
    initpc,      \* initpc[w]: where worker w is inside init_db  (line 31)
    dbfault,     \* dbfault[w]: what init_db of worker w raised
    src,         \* fetch harness: what the source answered
    lim,         \* fetch harness: the limit argument of stage_fetch_data
    got          \* fetch harness: what stage_fetch_data returned

dbVars == <<schema, initpc, dbfault>>
fetchVars == <<src, lim, got>>

vars == <<runs, pc, email, raw_items, idx, processed, results, errors,
          notified, response, rows, outbox, log, text, analysis,
          dbVars, fetchVars>>

pipeVars == <<runs, pc, email, raw_items, idx, processed, results, errors,
              notified, response, rows, outbox, log>>

-----------------------------------------------------------------------------
(* Bounds *)

MaxRuns == 2          \* request slots
MaxSourceLen == 4     \* longest array the source returns
MaxChunks == 3        \* chunks concatenated into an analyzer input
MaxConcLen == 2       \* longest array the source returns to concurrent requests
MaxLimit == 3         \* largest limit given to stage_fetch_data on its own

-----------------------------------------------------------------------------
(* Text *)

NL == "\n"
Whitespace == {" ", NL, "\t"}

UpperToLower ==
    [c \in {"D", "E", "G", "L", "O", "R", "S", "U", "N"} |->
        CASE c = "D" -> "d" [] c = "E" -> "e" [] c = "G" -> "g"
          [] c = "L" -> "l" [] c = "O" -> "o" [] c = "R" -> "r"
          [] c = "S" -> "s" [] c = "U" -> "u" [] c = "N" -> "n"]

\* str.lower()
Lower(s) ==
    [i \in 1..Len(s) |->
        IF s[i] \in DOMAIN UpperToLower THEN UpperToLower[s[i]] ELSE s[i]]

\* `w in s` for strings: w occurs in s as a contiguous substring
Contains(s, w) ==
    \E i \in 0..(Len(s) - Len(w)) : SubSeq(s, i + 1, i + Len(w)) = w

\* str.split(): the maximal runs of non-whitespace characters
RECURSIVE SplitFrom(_, _, _)
SplitFrom(s, i, cur) ==
    IF i > Len(s)
    THEN IF cur = <<>> THEN <<>> ELSE <<cur>>
    ELSE IF s[i] \in Whitespace
         THEN IF cur = <<>>
              THEN SplitFrom(s, i + 1, <<>>)
              ELSE <<cur>> \o SplitFrom(s, i + 1, <<>>)
         ELSE SplitFrom(s, i + 1, Append(cur, s[i]))

Split(s) == SplitFrom(s, 1, <<>>)

\* str.split('\n')[0]: everything before the first newline
RECURSIVE FirstLine(_)
FirstLine(s) ==
    IF s = <<>> \/ Head(s) = NL THEN <<>> ELSE <<Head(s)>> \o FirstLine(Tail(s))

\* s[:n]
Prefix(s, n) == SubSeq(s, 1, IF Len(s) < n THEN Len(s) ELSE n)

-----------------------------------------------------------------------------
(* mock_llm_analysis *)

positive_words ==
    { <<"g", "o", "o", "d">>, <<"g", "r", "e", "a", "t">>,
      <<"h", "a", "p", "p", "y">>, <<"s", "u", "n">>,
      <<"q", "u", "i">>, <<"e", "s", "t">> }

critical_words == { <<"e", "r", "r", "o", "r">>, <<"d", "o", "l", "o", "r">> }

HasPositive(s) == \E w \in positive_words : Contains(Lower(s), w)
HasCritical(s) == \E w \in critical_words : Contains(Lower(s), w)

\* lines 41-45: the if / elif chain
SentimentPositiveLast(s) ==
    IF HasCritical(s) THEN "critical"
    ELSE IF HasPositive(s) THEN "enthusiastic"
    ELSE "objective"

Sentiment(s) ==
    IF HasPositive(s) THEN "enthusiastic"
    ELSE IF HasCritical(s) THEN "critical"
    ELSE "objective"

Returned(v) == [exc |-> "none", value |-> v]
Raised(e, msg) == [exc |-> e, value |-> msg]

\* lines 47-56: text.split()[0] raises IndexError when split() is empty
mock_llm_analysis(s) ==
    IF Split(s) = <<>>
    THEN Raised("IndexError", "list index out of range")
    ELSE Returned([insights  |-> [subject |-> Split(s)[1], words |-> Len(Split(s))],
                   sentiment |-> Sentiment(s)])

-----------------------------------------------------------------------------
(* JSON values the source returns and the request carries *)

Obj(f) == [type |-> "object", fields |-> f]

ItemPlain   == Obj([id |-> 1, title |-> <<"a", "b">>, body |-> <<"c", " ", "d">>])
ItemBoth    == Obj([id |-> 2, title |-> <<"S", "u", "n">>,
                    body |-> <<"d", "o", "l", "o", "r">>])
ItemEmpty   == Obj([id |-> 3, title |-> <<>>, body |-> <<>>])
ItemNoTitle == Obj([id |-> 4, body |-> <<"c">>])
ItemNoId    == Obj([title |-> <<"a", "b">>, body |-> <<"c">>])
ItemBlank   == Obj([id |-> 5, title |-> <<" ">>, body |-> <<" ">>])
ItemNull    == [type |-> "null"]

Items == {ItemPlain, ItemBoth, ItemEmpty, ItemNoTitle, ItemNoId, ItemBlank, ItemNull}

RECURSIVE SeqsUpTo(_, _)
SeqsUpTo(S, n) ==
    IF n = 0 THEN {<<>>}
    ELSE LET shorter == SeqsUpTo(S, n - 1)
         IN  shorter \cup {Append(q, x) : q \in {p \in shorter : Len(p) = n - 1}, x \in S}

\* what requests.get(...) / raise_for_status() / response.json() can raise,
\* and the TypeError of posts[:limit] on JSON that is no array
FetchFaults == {"ConnectionError", "Timeout", "HTTPError", "JSONDecodeError", "TypeError"}

ResponsesOver(S, n) ==
    {[kind |-> "fault", cause |-> c, items |-> <<>>] : c \in FetchFaults}
    \cup {[kind |-> "array", cause |-> "none", items |-> a] : a \in SeqsUpTo(S, n)}

SourceResponses == ResponsesOver(Items, MaxSourceLen)

\* what the source answers while two requests run side by side
ConcItems == {ItemPlain, ItemEmpty}
ConcResponses == ResponsesOver(ConcItems, MaxConcLen)

\* request.json: a body with an email, and a body without one
Requests == {[email |-> "ops@example.com"], [source |-> "web"]}

DefaultEmail == "admin@example.com"
FetchLimit == 3
ExcerptLen == 50
Ellipsis == <<".", ".", ".">>

-----------------------------------------------------------------------------
(* Pipeline stages *)

\* lines 60-69: any exception gives [], otherwise posts[:limit]
stage_fetch_dataNoSlice(resp, limit) ==
    IF resp.kind = "array" THEN resp.items ELSE <<>>

stage_fetch_data(resp, limit) ==
    IF resp.kind = "array" THEN Prefix(resp.items, limit) ELSE <<>>

\* lines 71-84: item['title'], item['body'], the analysis, then item['id']
stage_process_item(item) ==
    IF item.type # "object"
    THEN Raised("TypeError", "object is not subscriptable")
    ELSE IF "title" \notin DOMAIN item.fields THEN Raised("KeyError", "'title'")
    ELSE IF "body" \notin DOMAIN item.fields THEN Raised("KeyError", "'body'")
    ELSE LET content == item.fields.title \o <<NL>> \o item.fields.body
             result  == mock_llm_analysis(content)
         IN  IF result.exc # "none" THEN result
             ELSE IF "id" \notin DOMAIN item.fields THEN Raised("KeyError", "'id'")
             ELSE Returned([original_id      |-> item.fields.id,
                            original_content |-> content,
                            analysis         |-> result.value.insights,
                            sentiment        |-> result.value.sentiment])

\* lines 90-96: the row the INSERT writes (id is the AUTOINCREMENT key)
NewRow(table, p) ==
    [id          |-> Len(table) + 1,
     original_id |-> p.original_id,
     title       |-> FirstLine(p.original_content),
     body        |-> p.original_content,
     insights    |-> p.analysis,
     sentiment   |-> p.sentiment]

\* lines 86-102: the INSERT commits and True is returned, or whatever sqlite
\* raised is caught and False is returned with the table as it was
stage_store_itemReplace(table, p, dbOk) ==
    IF dbOk
    THEN [table |-> IF table = <<>> THEN <<NewRow(table, p)>>
                    ELSE [table EXCEPT ![Len(table)] = NewRow(table, p)],
          ret   |-> TRUE]
    ELSE [table |-> table, ret |-> FALSE]

stage_store_itemTwice(table, p, dbOk) ==
    IF dbOk
    THEN [table |-> Append(Append(table, NewRow(table, p)),
                           NewRow(Append(table, NewRow(table, p)), p)),
          ret   |-> TRUE]
    ELSE [table |-> table, ret |-> FALSE]

stage_store_itemAlwaysTrue(table, p, dbOk) ==
    IF dbOk THEN [table |-> Append(table, NewRow(table, p)), ret |-> TRUE]
    ELSE [table |-> table, ret |-> TRUE]

stage_store_item(table, p, dbOk) ==
    IF dbOk THEN [table |-> Append(table, NewRow(table, p)), ret |-> TRUE]
    ELSE [table |-> table, ret |-> FALSE]

\* lines 134-140
Outcome(p, stored) ==
    [original  |-> Prefix(p.original_content, ExcerptLen) \o Ellipsis,
     analysis  |-> p.analysis,
     sentiment |-> p.sentiment,
     stored    |-> stored]

\* line 143: item.get('id', 'unknown') and str(e)
ErrorEntry(item, res) ==
    [item  |-> IF "id" \in DOMAIN item.fields THEN ToString(item.fields.id)
               ELSE "unknown",
     cause |-> res.value]

Event(op, i, ok, info) == [op |-> op, i |-> i, ok |-> ok, info |-> info]

-----------------------------------------------------------------------------
(* State *)

AllRuns == 1..MaxRuns

Table == "processed_posts"
HasTable == \E k \in 1..Len(schema) : schema[k] = Table

NoSource == [kind |-> "none", cause |-> "none", items |-> <<>>]
NotFetched == [called |-> FALSE, items |-> <<>>]

\* the module was imported by every worker: init_db has run (line 31)
ImportDone ==
    /\ schema = <<Table>>
    /\ initpc = [w \in AllRuns |-> "done"]
    /\ dbfault = [w \in AllRuns |-> "none"]

FetchHarnessIdle ==
    /\ src = NoSource
    /\ lim = FetchLimit
    /\ got = NotFetched

\* the answers the source gives in this behaviour
Feed == IF Cardinality(runs) > 1 THEN ConcResponses ELSE SourceResponses

NoResponse == [status |-> 0, body |-> [pending |-> TRUE]]
NotCalled == [exc |-> "not called", value |-> "none"]

OldRow ==
    [id |-> 1, original_id |-> 9, title |-> <<"o">>, body |-> <<"o", NL, "p">>,
     insights |-> [subject |-> <<"o">>, words |-> 2], sentiment |-> "objective"]

InitPipeline ==
    /\ pc = [r \in AllRuns |-> "Idle"]
    /\ email = [r \in AllRuns |-> DefaultEmail]
    /\ raw_items = [r \in AllRuns |-> <<>>]
    /\ idx = [r \in AllRuns |-> 0]
    /\ processed = [r \in AllRuns |-> <<>>]
    /\ results = [r \in AllRuns |-> <<>>]
    /\ errors = [r \in AllRuns |-> <<>>]
    /\ notified = [r \in AllRuns |-> FALSE]
    /\ response = [r \in AllRuns |-> NoResponse]
    /\ outbox = <<>>
    /\ log = [r \in AllRuns |-> <<>>]

\* one request; the table is empty or already holds a row of an earlier run
Init ==
    /\ runs = {1}
    /\ InitPipeline
    /\ rows \in {<<>>, <<OldRow>>}
    /\ text = <<>>
    /\ analysis = NotCalled
    /\ ImportDone
    /\ FetchHarnessIdle

-----------------------------------------------------------------------------
(* run_pipeline *)

\* lines 114-123: the request is read (by a worker that has imported the
\* module), the source is called once, and an empty raw_items ends the
\* request with 502
FetchNoEmptyCheck(r) ==
    /\ r \in runs
    /\ pc[r] = "Idle"
    /\ initpc[r] = "done"
    /\ \E req \in Requests, resp \in Feed :
          LET raw == stage_fetch_data(resp, FetchLimit)
          IN  /\ email' = [email EXCEPT ![r] =
                     IF "email" \in DOMAIN req THEN req.email ELSE DefaultEmail]
              /\ raw_items' = [raw_items EXCEPT ![r] = raw]
              /\ log' = [log EXCEPT ![r] =
                     Append(@, Event("fetch", Len(raw), resp.kind = "array", resp.cause))]
              /\ idx' = [idx EXCEPT ![r] = 1]
              /\ pc' = [pc EXCEPT ![r] = IF raw = <<>> THEN "Notify" ELSE "Process"]
              /\ UNCHANGED response
    /\ UNCHANGED <<runs, processed, results, errors, notified, rows, outbox,
                   text, analysis,
                   dbVars, fetchVars>>

Fetch(r) ==
    /\ r \in runs
    /\ pc[r] = "Idle"
    /\ initpc[r] = "done"
    /\ \E req \in Requests, resp \in Feed :
          LET raw == stage_fetch_data(resp, FetchLimit)
          IN  /\ email' = [email EXCEPT ![r] =
                     IF "email" \in DOMAIN req THEN req.email ELSE DefaultEmail]
              /\ raw_items' = [raw_items EXCEPT ![r] = raw]
              /\ log' = [log EXCEPT ![r] =
                     Append(@, Event("fetch", Len(raw), resp.kind = "array", resp.cause))]
              /\ IF raw = <<>>
                 THEN /\ response' = [response EXCEPT ![r] =
                             [status |-> 502,
                              body   |-> [error |-> "Failed to fetch data from source"]]]
                      /\ pc' = [pc EXCEPT ![r] = "Aborted"]
                      /\ UNCHANGED idx
                 ELSE /\ idx' = [idx EXCEPT ![r] = 1]
                      /\ pc' = [pc EXCEPT ![r] = "Process"]
                      /\ UNCHANGED response
    /\ UNCHANGED <<runs, processed, results, errors, notified, rows, outbox,
                   text, analysis,
                   dbVars, fetchVars>>

\* line 126: the for loop moves to the next item, or ends
NextPcSkipLast(r) == IF idx[r] + 1 >= Len(raw_items[r]) THEN "Notify" ELSE "Process"

NextPc(r) == IF idx[r] + 1 > Len(raw_items[r]) THEN "Notify" ELSE "Process"

\* lines 127-129 and 142-143: stage_process_item on the current item; what it
\* raises is caught and recorded, and what the handler itself raises
\* (item.get on a value that is no dict) leaves run_pipeline uncaught
Analyze(r) ==
    /\ r \in runs
    /\ pc[r] = "Process"
    /\ LET item == raw_items[r][idx[r]]
           res  == stage_process_item(item)
       IN  /\ log' = [log EXCEPT ![r] =
                  Append(@, Event("analyze", idx[r], res.exc = "none", res.exc))]
           /\ IF res.exc = "none"
              THEN /\ processed' = [processed EXCEPT ![r] = <<res.value>>]
                   /\ pc' = [pc EXCEPT ![r] = "Store"]
                   /\ UNCHANGED <<errors, idx, response>>
              ELSE IF item.type = "object"
              THEN /\ errors' = [errors EXCEPT ![r] = Append(@, ErrorEntry(item, res))]
                   /\ idx' = [idx EXCEPT ![r] = @ + 1]
                   /\ pc' = [pc EXCEPT ![r] = NextPc(r)]
                   /\ UNCHANGED <<processed, response>>
              ELSE /\ response' = [response EXCEPT ![r] =
                          [status |-> 500, body |-> [unhandled |-> "AttributeError"]]]
                   /\ pc' = [pc EXCEPT ![r] = "Crashed"]
                   /\ UNCHANGED <<processed, errors, idx>>
    /\ UNCHANGED <<runs, email, raw_items, results, notified, rows, outbox,
                   text, analysis,
                   dbVars, fetchVars>>

\* lines 131-140: stage_store_item, then the outcome is appended whatever
\* stage_store_item returned; the INSERT can commit only into a table
StorePrepend(r) ==
    /\ r \in runs
    /\ pc[r] = "Store"
    /\ \E dbOk \in (IF HasTable THEN BOOLEAN ELSE {FALSE}) :
          LET p   == processed[r][1]
              out == stage_store_item(rows, p, dbOk)
          IN  /\ rows' = out.table
              /\ results' = [results EXCEPT ![r] = <<Outcome(p, out.ret)>> \o @]
              /\ log' = [log EXCEPT ![r] =
                     Append(@, Event("insert", idx[r], out.ret, "none"))]
    /\ processed' = [processed EXCEPT ![r] = <<>>]
    /\ idx' = [idx EXCEPT ![r] = @ + 1]
    /\ pc' = [pc EXCEPT ![r] = NextPc(r)]
    /\ UNCHANGED <<runs, email, raw_items, errors, notified, response, outbox,
                   text, analysis, dbVars, fetchVars>>

StoreErrorOnFailure(r) ==
    /\ r \in runs
    /\ pc[r] = "Store"
    /\ \E dbOk \in (IF HasTable THEN BOOLEAN ELSE {FALSE}) :
          LET p   == processed[r][1]
              out == stage_store_item(rows, p, dbOk)
          IN  /\ rows' = out.table
              /\ IF out.ret
                 THEN /\ results' = [results EXCEPT ![r] = Append(@, Outcome(p, TRUE))]
                      /\ UNCHANGED errors
                 ELSE /\ errors' = [errors EXCEPT ![r] =
                             Append(@, [item  |-> ToString(p.original_id),
                                        cause |-> "PersistenceError"])]
                      /\ UNCHANGED results
              /\ log' = [log EXCEPT ![r] =
                     Append(@, Event("insert", idx[r], out.ret, "none"))]
    /\ processed' = [processed EXCEPT ![r] = <<>>]
    /\ idx' = [idx EXCEPT ![r] = @ + 1]
    /\ pc' = [pc EXCEPT ![r] = NextPc(r)]
    /\ UNCHANGED <<runs, email, raw_items, notified, response, outbox,
                   text, analysis,
                   dbVars, fetchVars>>

Store(r) ==
    /\ r \in runs
    /\ pc[r] = "Store"
    /\ \E dbOk \in (IF HasTable THEN BOOLEAN ELSE {FALSE}) :
          LET p   == processed[r][1]
              out == stage_store_item(rows, p, dbOk)
          IN  /\ rows' = out.table
              /\ results' = [results EXCEPT ![r] = Append(@, Outcome(p, out.ret))]
              /\ log' = [log EXCEPT ![r] =
                     Append(@, Event("insert", idx[r], out.ret, "none"))]
    /\ processed' = [processed EXCEPT ![r] = <<>>]
    /\ idx' = [idx EXCEPT ![r] = @ + 1]
    /\ pc' = [pc EXCEPT ![r] = NextPc(r)]
    /\ UNCHANGED <<runs, email, raw_items, errors, notified, response, outbox,
                   text, analysis,
                   dbVars, fetchVars>>

\* lines 104-108 and 146: stage_notify prints and returns True
NotifyStoredCount(r) ==
    /\ r \in runs
    /\ pc[r] = "Notify"
    /\ LET count == Len(SelectSeq(results[r], LAMBDA o : o.stored))
       IN  /\ outbox' = Append(outbox, [run |-> r, to |-> email[r], count |-> count])
           /\ log' = [log EXCEPT ![r] = Append(@, Event("notify", count, TRUE, email[r]))]
    /\ notified' = [notified EXCEPT ![r] = TRUE]
    /\ pc' = [pc EXCEPT ![r] = "Assemble"]
    /\ UNCHANGED <<runs, email, raw_items, idx, processed, results, errors,
                   response, rows, text, analysis,
                   dbVars, fetchVars>>

Notify(r) ==
    /\ r \in runs
    /\ pc[r] = "Notify"
    /\ outbox' = Append(outbox, [run |-> r, to |-> email[r], count |-> Len(results[r])])
    /\ notified' = [notified EXCEPT ![r] = TRUE]
    /\ log' = [log EXCEPT ![r] =
           Append(@, Event("notify", Len(results[r]), TRUE, email[r]))]
    /\ pc' = [pc EXCEPT ![r] = "Assemble"]
    /\ UNCHANGED <<runs, email, raw_items, idx, processed, results, errors,
                   response, rows, text, analysis,
                   dbVars, fetchVars>>

\* lines 149-157
Assemble(r) ==
    /\ r \in runs
    /\ pc[r] = "Assemble"
    /\ response' = [response EXCEPT ![r] =
           [status |-> 200,
            body   |-> [items            |-> results[r],
                        notificationSent |-> notified[r],
                        errors           |-> errors[r],
                        recordCount      |-> Len(results[r])]]]
    /\ log' = [log EXCEPT ![r] = Append(@, Event("assemble", 0, TRUE, "none"))]
    /\ pc' = [pc EXCEPT ![r] = "Completed"]
    /\ UNCHANGED <<runs, email, raw_items, idx, processed, results, errors,
                   notified, rows, outbox, text, analysis,
                   dbVars, fetchVars>>

Next ==
    \E r \in AllRuns :
        \/ Fetch(r)
        \/ Analyze(r)
        \/ Store(r)
        \/ Notify(r)
        \/ Assemble(r)

Spec == Init /\ [][Next]_vars

-----------------------------------------------------------------------------
(* The analyzer alone: mock_llm_analysis applied to one text *)

Chunks ==
    { <<"G", "o", "o", "d">>, <<"s", "u">>, <<"n">>,
      <<"D", "o", "L", "o", "r">>, <<"E", "R", "R", "O", "R">>,
      <<" ">>, <<NL>>, <<"a", "b">> }

RECURSIVE Concat(_)
Concat(ss) == IF ss = <<>> THEN <<>> ELSE Head(ss) \o Concat(Tail(ss))

Texts == {Concat(ss) : ss \in SeqsUpTo(Chunks, MaxChunks)}

InitAnalyzer ==
    /\ runs = {}
    /\ InitPipeline
    /\ rows = <<>>
    /\ text \in Texts
    /\ analysis = NotCalled
    /\ ImportDone
    /\ FetchHarnessIdle

CallAnalyzer ==
    /\ analysis.exc = "not called"
    /\ analysis' = mock_llm_analysis(text)
    /\ UNCHANGED <<pipeVars, text, dbVars, fetchVars>>

NextAnalyzer == CallAnalyzer

SpecAnalyzer == InitAnalyzer /\ [][NextAnalyzer]_vars

-----------------------------------------------------------------------------
(* init_db, and two workers side by side *)

\* lines 17-26: connect and CREATE TABLE IF NOT EXISTS, one sqlite statement
InitDbCreateNoGuard(w) ==
    /\ initpc[w] = "create"
    /\ IF HasTable
       THEN /\ dbfault' = [dbfault EXCEPT ![w] = "table processed_posts already exists"]
            /\ initpc' = [initpc EXCEPT ![w] = "failed"]
            /\ UNCHANGED schema
       ELSE /\ schema' = Append(schema, Table)
            /\ initpc' = [initpc EXCEPT ![w] = "commit"]
            /\ UNCHANGED dbfault
    /\ UNCHANGED <<pipeVars, text, analysis, fetchVars>>

InitDbRecreate(w) ==
    /\ initpc[w] = "create"
    /\ schema' = <<Table>>
    /\ rows' = <<>>
    /\ initpc' = [initpc EXCEPT ![w] = "commit"]
    /\ UNCHANGED <<runs, pc, email, raw_items, idx, processed, results, errors,
                   notified, response, outbox, log, text, analysis, dbfault,
                   fetchVars>>

InitDbCreate(w) ==
    /\ initpc[w] = "create"
    /\ schema' = IF HasTable THEN schema ELSE Append(schema, Table)
    /\ initpc' = [initpc EXCEPT ![w] = "commit"]
    /\ UNCHANGED <<pipeVars, text, analysis, dbfault, fetchVars>>

\* lines 27-28: commit and close
InitDbCommit(w) ==
    /\ initpc[w] = "commit"
    /\ initpc' = [initpc EXCEPT ![w] = "done"]
    /\ UNCHANGED <<pipeVars, text, analysis, schema, dbfault, fetchVars>>

ConcRuns == {1, 2}

\* two workers start: each imports the module (init_db) and then serves one
\* request; the database file is new, or is left from an earlier start
InitConc ==
    /\ runs = ConcRuns
    /\ InitPipeline
    /\ schema \in {<<>>, <<Table>>}
    /\ rows \in (IF schema = <<>> THEN {<<>>} ELSE {<<>>, <<OldRow>>})
    /\ initpc = [w \in AllRuns |-> IF w \in ConcRuns THEN "create" ELSE "done"]
    /\ dbfault = [w \in AllRuns |-> "none"]
    /\ text = <<>>
    /\ analysis = NotCalled
    /\ FetchHarnessIdle

NextConc ==
    \E r \in AllRuns :
        \/ InitDbCreate(r)
        \/ InitDbCommit(r)
        \/ Fetch(r)
        \/ Analyze(r)
        \/ Store(r)
        \/ Notify(r)
        \/ Assemble(r)

SpecConc == InitConc /\ [][NextConc]_vars

-----------------------------------------------------------------------------
(* The fetcher alone: stage_fetch_data applied to one answer of the source *)

FetchItems == {ItemPlain, ItemBoth, ItemNull}

InitFetch ==
    /\ runs = {}
    /\ InitPipeline
    /\ rows = <<>>
    /\ text = <<>>
    /\ analysis = NotCalled
    /\ ImportDone
    /\ src \in ResponsesOver(FetchItems, MaxSourceLen)
    /\ lim \in 1..MaxLimit
    /\ got = NotFetched

CallFetch ==
    /\ ~got.called
    /\ got' = [called |-> TRUE, items |-> stage_fetch_data(src, lim)]
    /\ UNCHANGED <<pipeVars, text, analysis, dbVars, src, lim>>

NextFetch == CallFetch

SpecFetch == InitFetch /\ [][NextFetch]_vars

-----------------------------------------------------------------------------
(* Reading the history of a request *)

Terminated(r) == pc[r] \in {"Completed", "Aborted", "Crashed"}

FetchOk(r) == log[r] # <<>> /\ log[r][1].ok
FetchFailed(r) == log[r] # <<>> /\ ~log[r][1].ok

\* the events of one kind, in the order they happened
EventsOf(r, op) == SelectSeq(log[r], LAMBDA e : e.op = op)

\* the positions (1..N) whose analysis succeeded / failed, in order
AnalyzedOk(r) == SelectSeq(log[r], LAMBDA e : e.op = "analyze" /\ e.ok)
AnalyzedBad(r) == SelectSeq(log[r], LAMBDA e : e.op = "analyze" /\ ~e.ok)
InsertedOk(r) == SelectSeq(log[r], LAMBDA e : e.op = "insert" /\ e.ok)

Analyzed(r, i) == \E k \in 1..Len(log[r]) : log[r][k].op = "analyze" /\ log[r][k].i = i
AnalysisOk(r, i) ==
    \E k \in 1..Len(log[r]) : log[r][k].op = "analyze" /\ log[r][k].i = i /\ log[r][k].ok
InsertTried(r, i) == \E k \in 1..Len(log[r]) : log[r][k].op = "insert" /\ log[r][k].i = i
InsertOk(r, i) ==
    \E k \in 1..Len(log[r]) : log[r][k].op = "insert" /\ log[r][k].i = i /\ log[r][k].ok
ItemFailed(r, i) ==
    \/ Analyzed(r, i) /\ ~AnalysisOk(r, i)
    \/ InsertTried(r, i) /\ ~InsertOk(r, i)

\* rows that were in the table before any request of this behaviour
PreExisting == IF rows # <<>> /\ rows[1] = OldRow THEN 1 ELSE 0

RECURSIVE SumOver(_, _)
SumOver(S, f) ==
    IF S = {} THEN 0
    ELSE LET x == CHOOSE y \in S : TRUE IN f[x] + SumOver(S \ {x}, f)

Persisted(r) == Len(InsertedOk(r))

IdText(item) ==
    IF "id" \in DOMAIN item.fields THEN ToString(item.fields.id) ELSE "unknown"

IsAggregate(body) == {"items", "notificationSent", "errors"} \subseteq DOMAIN body

-----------------------------------------------------------------------------
(* C1: once the fetch gave items 1..N, a failed analysis or a failed       *)
(* insert of item k does not abort the request: every later item is        *)
(* analyzed, gets its insert attempted when its analysis succeeded, and    *)
(* the request ends Completed.                                             *)
C1_FailureNeverAborts ==
    \A r \in runs :
        Terminated(r) /\ FetchOk(r) =>
            \A k \in 1..Len(raw_items[r]) :
                ItemFailed(r, k) =>
                    /\ pc[r] = "Completed"
                    /\ \A j \in (k + 1)..Len(raw_items[r]) :
                          /\ Analyzed(r, j)
                          /\ AnalysisOk(r, j) => InsertTried(r, j)

-----------------------------------------------------------------------------
(* C2 as written: in a Completed request an item whose analysis and insert *)
(* both succeeded gives one outcome and no error, and an item whose        *)
(* analysis or insert failed gives one error and no outcome.               *)
C2_Original ==
    \A r \in runs :
        pc[r] = "Completed" =>
            /\ Len(results[r]) = Len(InsertedOk(r))
            /\ Len(errors[r]) = Len(raw_items[r]) - Len(InsertedOk(r))

(* C2 amended: in a Completed request every fetched item gives exactly one *)
(* entry.  An item whose analysis succeeded gives one outcome and no       *)
(* error, whether or not its insert succeeded: the outcome's stored flag   *)
(* is the result of the insert.  An item whose analysis failed gives one   *)
(* error naming its id (or "unknown") and no outcome.  The table grew by   *)
(* one row per successful insert.                                          *)
C2_OneEntryPerItem ==
    \A r \in runs :
        pc[r] = "Completed" =>
            /\ \A i \in 1..Len(raw_items[r]) : Analyzed(r, i)
            /\ Len(results[r]) = Len(AnalyzedOk(r))
            /\ \A k \in 1..Len(results[r]) :
                  LET i == AnalyzedOk(r)[k].i
                      p == stage_process_item(raw_items[r][i]).value
                  IN  /\ results[r][k].original =
                             Prefix(p.original_content, ExcerptLen) \o Ellipsis
                      /\ results[r][k].stored = InsertOk(r, i)
            /\ Len(errors[r]) = Len(AnalyzedBad(r))
            /\ \A k \in 1..Len(errors[r]) :
                  errors[r][k].item = IdText(raw_items[r][AnalyzedBad(r)[k].i])
            /\ Len(results[r]) + Len(errors[r]) = Len(raw_items[r])
            /\ Len(rows) = PreExisting + SumOver(runs, [q \in runs |-> Persisted(q)])

\* item 2 of 3 failed its insert: three outcomes, the second not stored, no
\* error, two rows persisted
C2_Witness ==
    \E r \in runs :
        /\ pc[r] = "Completed"
        /\ Len(raw_items[r]) = 3
        /\ InsertOk(r, 1) /\ InsertTried(r, 2) /\ ~InsertOk(r, 2) /\ InsertOk(r, 3)
        /\ Len(results[r]) = 3
        /\ ~results[r][2].stored
        /\ errors[r] = <<>>
        /\ Persisted(r) = 2

-----------------------------------------------------------------------------
(* C3: after a successful fetch of N items, N in 0..3, the returned result *)
(* has an outcome sequence and an error sequence whose lengths add up to N.*)
C3_OutcomesPlusErrors ==
    \A r \in runs :
        Terminated(r) /\ FetchOk(r) =>
            /\ IsAggregate(response[r].body)
            /\ Len(response[r].body.items) + Len(response[r].body.errors)
                   = log[r][1].i

-----------------------------------------------------------------------------
(* C4 as written: a failed source call returns an aggregate result with    *)
(* items = [], notificationSent = false and exactly one error.             *)
C4_Original ==
    \A r \in runs :
        Terminated(r) /\ FetchFailed(r) =>
            /\ IsAggregate(response[r].body)
            /\ response[r].body.items = <<>>
            /\ response[r].body.notificationSent = FALSE
            /\ Len(response[r].body.errors) = 1

(* C4 amended: a failed source call ends the request with status 502 and a *)
(* body that holds one error message and nothing else (no items, no        *)
(* notificationSent, no errors field); no notification was sent.           *)
C4_FetchFailureResult ==
    \A r \in runs :
        FetchFailed(r) =>
            /\ pc[r] = "Aborted"
            /\ response[r].status = 502
            /\ DOMAIN response[r].body = {"error"}
            /\ response[r].body.error = "Failed to fetch data from source"
            /\ results[r] = <<>>
            /\ notified[r] = FALSE

C4_Witness ==
    \E r \in runs :
        /\ FetchFailed(r)
        /\ log[r][1].info = "Timeout"
        /\ response[r].status = 502

-----------------------------------------------------------------------------
(* C5: a request whose fetch failed made no other stage call: no item was  *)
(* analyzed, no insert was made (the table is as it was), and the notifier *)
(* was not invoked.                                                        *)
C5_FetchFailureTouchesNothing ==
    \A r \in runs :
        FetchFailed(r) =>
            /\ Len(log[r]) = 1
            /\ Persisted(r) = 0
            /\ \A k \in 1..Len(outbox) : outbox[k].run # r
            /\ runs = {r} => rows \in {<<>>, <<OldRow>>}

C5_Witness ==
    \E r \in runs :
        /\ FetchFailed(r)
        /\ pc[r] = "Aborted"
        /\ rows = <<OldRow>>
        /\ outbox = <<>>

-----------------------------------------------------------------------------
(* C6: a request ends Aborted exactly when its fetch failed; a request     *)
(* whose fetch succeeded, with N in 0..3 items, is notified and ends       *)
(* Completed.                                                              *)
C6_AbortedIffFetchFailed ==
    \A r \in runs :
        /\ pc[r] = "Aborted" => FetchFailed(r)
        /\ Terminated(r) /\ FetchFailed(r) => pc[r] = "Aborted"
        /\ Terminated(r) /\ FetchOk(r) /\ log[r][1].i = 0 =>
               pc[r] = "Completed" /\ Len(EventsOf(r, "notify")) = 1

-----------------------------------------------------------------------------
(* C7 as written: the count given to the notifier is the number of items   *)
(* that were analyzed and stored, i.e. the rows the request persisted.     *)
C7_Original ==
    \A r \in runs :
        pc[r] = "Completed" =>
            \A k \in 1..Len(outbox) :
                outbox[k].run = r => outbox[k].count = Persisted(r)

(* C7 amended: the count given to the notifier is the number of outcome    *)
(* records, i.e. of items whose analysis succeeded, whether or not their   *)
(* insert succeeded; it is not the number of fetched items.                *)
C7_NotifyCount ==
    \A r \in runs :
        pc[r] = "Completed" =>
            /\ \E k \in 1..Len(outbox) : outbox[k].run = r
            /\ \A k \in 1..Len(outbox) :
                  outbox[k].run = r =>
                      /\ outbox[k].count = Len(AnalyzedOk(r))
                      /\ outbox[k].count = Len(results[r])
                      /\ outbox[k].to = email[r]

\* one item analyzed, its insert failed, another item failed analysis: the
\* notifier got 1, not 0 (stored) and not 2 (fetched)
C7_Witness ==
    \E r \in runs :
        /\ pc[r] = "Completed"
        /\ Len(raw_items[r]) = 2
        /\ Len(AnalyzedOk(r)) = 1
        /\ Persisted(r) = 0
        /\ \E k \in 1..Len(outbox) : outbox[k].run = r /\ outbox[k].count = 1

-----------------------------------------------------------------------------
(* C8: a Completed request invoked the notifier exactly once, after every  *)
(* fetched item was processed and before the result was assembled; the     *)
(* stage calls of any request are ordered fetch, process-and-store,        *)
(* notify, assemble, with no phase entered twice.                          *)
PhaseOf(op) ==
    CASE op = "fetch" -> 1
      [] op \in {"analyze", "insert"} -> 2
      [] op = "notify" -> 3
      [] op = "assemble" -> 4

C8_NotifyOnceInOrder ==
    \A r \in runs :
        /\ \A j, k \in 1..Len(log[r]) :
              j < k => /\ PhaseOf(log[r][j].op) <= PhaseOf(log[r][k].op)
                       /\ PhaseOf(log[r][j].op) = PhaseOf(log[r][k].op)
                              => PhaseOf(log[r][j].op) = 2
        /\ pc[r] = "Completed" =>
              /\ Len(EventsOf(r, "notify")) = 1
              /\ Len(SelectSeq(outbox, LAMBDA n : n.run = r)) = 1
              /\ log[r][Len(log[r])].op = "assemble"
              /\ log[r][Len(log[r]) - 1].op = "notify"
              /\ log[r][1].op = "fetch"
              /\ \A i \in 1..Len(raw_items[r]) :
                    Analyzed(r, i) /\ (AnalysisOk(r, i) => InsertTried(r, i))
              /\ response[r].body.notificationSent = TRUE

C8_Witness ==
    \E r \in runs :
        /\ pc[r] = "Completed"
        /\ Len(raw_items[r]) = 3
        /\ Len(log[r]) >= 7
        /\ Len(EventsOf(r, "notify")) = 1

-----------------------------------------------------------------------------
(* C9 as written: a text with a critical and a positive trigger word is    *)
(* classified Critical.                                                    *)
C9_Original ==
    analysis.exc # "not called" /\ HasCritical(text) /\ HasPositive(text) =>
        analysis.exc = "none" /\ analysis.value.sentiment = "critical"

(* C9 amended: the positive trigger words are checked first and take       *)
(* precedence: a text with a critical and a positive trigger word is       *)
(* classified Enthusiastic; Critical is returned only when a critical      *)
(* trigger is present and no positive one.                                 *)
C9_PositiveFirst ==
    analysis.exc # "not called" =>
        /\ HasCritical(text) /\ HasPositive(text) =>
               analysis.exc = "none" /\ analysis.value.sentiment = "enthusiastic"
        /\ HasCritical(text) /\ ~HasPositive(text) =>
               analysis.exc = "none" /\ analysis.value.sentiment = "critical"

C9_Witness ==
    /\ analysis.exc # "not called"
    /\ HasCritical(text) /\ HasPositive(text)
    /\ analysis.exc = "none"

-----------------------------------------------------------------------------
(* C10: the analyzer never fails on a string, the empty string and         *)
(* whitespace-only strings included; the empty string gives Objective and  *)
(* an analysis text.                                                       *)
C10_NeverFails ==
    analysis.exc # "not called" =>
        /\ analysis.exc = "none"
        /\ text = <<>> => analysis.value.sentiment = "objective"

-----------------------------------------------------------------------------
(* C11: a request processes its items one at a time in fetch order: the    *)
(* analyses happen at positions 1, 2, ... in that order, the insert of an  *)
(* item directly follows its analysis, and so the outcome sequence and the *)
(* error sequence each list their items by fetch position; in a Completed  *)
(* request the two together cover every position exactly once.             *)
ExcerptOf(item) ==
    Prefix(item.fields.title \o <<NL>> \o item.fields.body, ExcerptLen) \o Ellipsis

Increasing(es) == \A j, k \in 1..Len(es) : j < k => es[j].i < es[k].i

C11_OrderPreserved ==
    \A r \in runs :
        /\ \A k \in 1..Len(EventsOf(r, "analyze")) : EventsOf(r, "analyze")[k].i = k
        /\ \A k \in 1..Len(log[r]) :
              log[r][k].op = "insert" =>
                  /\ k > 1
                  /\ log[r][k - 1].op = "analyze"
                  /\ log[r][k - 1].i = log[r][k].i
        /\ Increasing(AnalyzedOk(r))
        /\ Increasing(AnalyzedBad(r))
        /\ \A k \in 1..Len(results[r]) :
              results[r][k].original = ExcerptOf(raw_items[r][AnalyzedOk(r)[k].i])
        /\ \A k \in 1..Len(errors[r]) :
              errors[r][k].item = IdText(raw_items[r][AnalyzedBad(r)[k].i])
        /\ pc[r] = "Completed" =>
              /\ Len(results[r]) = Len(AnalyzedOk(r))
              /\ Len(errors[r]) = Len(AnalyzedBad(r))
              /\ {AnalyzedOk(r)[k].i : k \in 1..Len(AnalyzedOk(r))}
                     \cup {AnalyzedBad(r)[k].i : k \in 1..Len(AnalyzedBad(r))}
                     = 1..Len(raw_items[r])

\* items 1 and 3 gave two different outcomes, item 2 an error
C11_Witness ==
    \E r \in runs :
        /\ pc[r] = "Completed"
        /\ raw_items[r] = <<ItemPlain, ItemNoId, ItemBoth>>
        /\ Len(results[r]) = 2
        /\ results[r][1].original # results[r][2].original
        /\ Len(errors[r]) = 1

-----------------------------------------------------------------------------
(* C12: every request ends Aborted or Completed with a structured result,  *)
(* whatever the source answered and whatever failed: no fault raised while *)
(* an item is processed or its error is recorded leaves the request        *)
(* unhandled.                                                              *)
C12_NoUnhandledFault ==
    \A r \in runs :
        /\ pc[r] # "Crashed"
        /\ Terminated(r) => response[r].status \in {200, 502}

-----------------------------------------------------------------------------
(* C13: init_db called once, twice in a row or by two workers at the same  *)
(* time, in any interleaving, leaves exactly one processed_posts table, no *)
(* call fails because the table is already there, and no step of init_db   *)
(* changes the rows of the table.                                          *)
C13_InitDbIdempotent ==
    [][ /\ \A w \in AllRuns :
              /\ initpc'[w] # "failed"
              /\ dbfault'[w] = "none"
              /\ initpc'[w] \in {"commit", "done"} => schema' = <<Table>>
        /\ initpc' # initpc => rows' = rows ]_vars

\* both workers have executed CREATE TABLE IF NOT EXISTS and neither has
\* committed yet; the row of an earlier start is still there
C13_Witness ==
    /\ \A w \in ConcRuns : initpc[w] = "commit"
    /\ schema = <<Table>>
    /\ rows = <<OldRow>>

-----------------------------------------------------------------------------
(* C14: a fetch of N items, 1 <= N <= 3, each with an id and a non-empty   *)
(* title and body without trigger words, whose inserts all succeed, gives  *)
(* N outcomes, each Objective and stored, no errors, and notificationSent. *)
PlainItem(item) ==
    /\ item.type = "object"
    /\ {"id", "title", "body"} \subseteq DOMAIN item.fields
    /\ item.fields.title # <<>>
    /\ item.fields.body # <<>>
    /\ ~HasPositive(item.fields.title) /\ ~HasCritical(item.fields.title)
    /\ ~HasPositive(item.fields.body) /\ ~HasCritical(item.fields.body)

C14_PlainItemsAllObjective ==
    \A r \in runs :
        ( /\ Terminated(r) /\ FetchOk(r)
          /\ Len(raw_items[r]) >= 1
          /\ \A i \in 1..Len(raw_items[r]) : PlainItem(raw_items[r][i])
          /\ \A k \in 1..Len(log[r]) : log[r][k].op = "insert" => log[r][k].ok )
        => /\ pc[r] = "Completed"
           /\ Len(response[r].body.items) = Len(raw_items[r])
           /\ \A k \in 1..Len(response[r].body.items) :
                 /\ response[r].body.items[k].sentiment = "objective"
                 /\ response[r].body.items[k].stored
           /\ response[r].body.errors = <<>>
           /\ response[r].body.notificationSent

-----------------------------------------------------------------------------
(* C15: the table is append-only whatever requests and init_db calls       *)
(* interleave: every step leaves the rows that were there in place and     *)
(* unchanged, and at most adds rows after them.                            *)
C15_AppendOnly ==
    [][ /\ Len(rows') >= Len(rows)
        /\ SubSeq(rows', 1, Len(rows)) = rows ]_vars

\* the row of an earlier start, then rows of both requests
C15_Witness ==
    /\ Len(rows) >= 3
    /\ rows[1] = OldRow
    /\ \A r \in ConcRuns : Persisted(r) >= 1

-----------------------------------------------------------------------------
(* C16: every row was inserted for one fetched item of one request, after  *)
(* the analysis of that item succeeded: an insert directly follows the     *)
(* successful analysis of the same item, no item gets two inserts, a       *)
(* request that fetched N items adds at most N rows, and the table holds   *)
(* nothing but the earlier rows and one row per committed insert.          *)
\* stage_process_item tabulated over the items the source can hold
ProcessedOf == [it \in Items |-> stage_process_item(it)]

RowIsFor(row, r, i) ==
    LET p == ProcessedOf[raw_items[r][i]].value
    IN  /\ row.original_id = p.original_id
        /\ row.body = p.original_content
        /\ row.title = FirstLine(p.original_content)
        /\ row.sentiment = p.sentiment

C16_RowsComeFromAnalyzedItems ==
    /\ \A r \in runs :
          /\ \A k \in 1..Len(log[r]) :
                log[r][k].op = "insert" =>
                    /\ k > 1
                    /\ log[r][k - 1].op = "analyze"
                    /\ log[r][k - 1].i = log[r][k].i
                    /\ log[r][k - 1].ok
          /\ \A j, k \in 1..Len(log[r]) :
                ( /\ log[r][j].op = "insert" /\ log[r][k].op = "insert"
                  /\ log[r][j].i = log[r][k].i ) => j = k
          /\ Persisted(r) <= Len(raw_items[r])
    /\ Len(rows) = PreExisting + SumOver(runs, [q \in runs |-> Persisted(q)])
    /\ \A n \in (PreExisting + 1)..Len(rows) :
          \E r \in runs : \E i \in 1..Len(raw_items[r]) :
              InsertOk(r, i) /\ RowIsFor(rows[n], r, i)

C16_Witness ==
    /\ \A r \in ConcRuns : pc[r] = "Completed" /\ Persisted(r) = 2
    /\ Len(rows) = PreExisting + 4

-----------------------------------------------------------------------------
(* C17: with two requests interleaved step by step no insert is lost or    *)
(* duplicated (the table is the earlier rows plus one row, with a key of   *)
(* its own, per committed insert of either request), and what a request    *)
(* returns is what the loop gives on its own fetched items and its own     *)
(* insert results alone.                                                   *)

\* the for loop of lines 126-143 run by itself on `items`, the insert of
\* position i returning stored[i]
RECURSIVE RunAlone(_, _, _)
RunAlone(items, stored, i) ==
    IF i > Len(items) THEN [results |-> <<>>, errors |-> <<>>]
    ELSE LET res  == ProcessedOf[items[i]]
             rest == RunAlone(items, stored, i + 1)
         IN  IF res.exc = "none"
             THEN [results |-> <<Outcome(res.value, stored[i])>> \o rest.results,
                   errors  |-> rest.errors]
             ELSE IF items[i].type = "object"
             THEN [results |-> rest.results,
                   errors  |-> <<ErrorEntry(items[i], res)>> \o rest.errors]
             ELSE [results |-> <<>>, errors |-> <<>>]

Alone(r) ==
    RunAlone(raw_items[r], [i \in 1..Len(raw_items[r]) |-> InsertOk(r, i)], 1)

\* the committed inserts of all requests that wrote the content of `row`
InsertsLike(row) ==
    SumOver(runs, [r \in runs |->
        Cardinality({i \in 1..Len(raw_items[r]) :
                        InsertOk(r, i) /\ RowIsFor(row, r, i)})])

RowsLike(row) ==
    Cardinality({n \in (PreExisting + 1)..Len(rows) :
                    /\ rows[n].original_id = row.original_id
                    /\ rows[n].body = row.body})

C17_ConcurrentRunsIndependent ==
    /\ Len(rows) = PreExisting + SumOver(runs, [q \in runs |-> Persisted(q)])
    /\ \A n \in 1..Len(rows) : rows[n].id = n
    /\ \A n \in (PreExisting + 1)..Len(rows) : RowsLike(rows[n]) = InsertsLike(rows[n])
    /\ \A r \in runs :
          Terminated(r) /\ FetchOk(r) /\ raw_items[r] # <<>> =>
              /\ results[r] = Alone(r).results
              /\ errors[r] = Alone(r).errors
              /\ pc[r] = "Completed" =>
                    /\ response[r].body.items = Alone(r).results
                    /\ response[r].body.errors = Alone(r).errors

\* both requests completed over two items each, one insert of the first
\* request failed, and the three committed inserts follow the earlier row
C17_Witness ==
    /\ \A r \in ConcRuns : pc[r] = "Completed" /\ Len(raw_items[r]) = 2
    /\ InsertOk(1, 1) /\ ~InsertOk(1, 2) /\ InsertTried(1, 2)
    /\ InsertOk(2, 1) /\ InsertOk(2, 2)
    /\ Len(rows) = 4
    /\ rows[1] = OldRow

-----------------------------------------------------------------------------
(* C18: stage_fetch_data succeeds or fails as a whole: for a source array  *)
(* of length L it returns the first min(limit, L) elements in source       *)
(* order (at most 3 with the limit run_pipeline passes), and when the      *)
(* call to the source fails it returns no item at all.                     *)
Min(a, b) == IF a < b THEN a ELSE b

C18_FetchAllOrNothing ==
    got.called =>
        IF src.kind = "array"
        THEN /\ Len(got.items) = Min(lim, Len(src.items))
             /\ \A i \in 1..Len(got.items) : got.items[i] = src.items[i]
             /\ lim = FetchLimit => Len(got.items) <= FetchLimit
        ELSE got.items = <<>>

\* a source array longer than the limit run_pipeline passes was cut
C18_Witness ==
    /\ got.called
    /\ src.kind = "array"
    /\ lim = FetchLimit
    /\ Len(src.items) > lim
    /\ Len(got.items) = lim
    /\ got.items[1] # got.items[lim]

-----------------------------------------------------------------------------
(* C19: the stored flag of an outcome is true exactly when the insert of   *)
(* that item committed a row: the table holds one row per outcome flagged  *)
(* true and none for an outcome flagged false, and a failed insert adds    *)
(* no error string.                                                        *)
StoredOutcomes(r) == SelectSeq(results[r], LAMBDA o : o.stored)

RowMatches(row, o) ==
    /\ Prefix(row.body, ExcerptLen) \o Ellipsis = o.original
    /\ row.sentiment = o.sentiment

C19_StoredFlagIsCommit ==
    /\ Len(rows) = PreExisting + SumOver(runs, [q \in runs |-> Len(StoredOutcomes(q))])
    /\ \A r \in runs :
          /\ \A k \in 1..Len(results[r]) :
                LET i == AnalyzedOk(r)[k].i
                IN  /\ results[r][k].stored = InsertOk(r, i)
                    /\ results[r][k].stored =>
                          \E n \in (PreExisting + 1)..Len(rows) :
                              RowMatches(rows[n], results[r][k])
          /\ Len(errors[r]) <= Len(AnalyzedBad(r))
          /\ pc[r] = "Completed" =>
                /\ response[r].body.items = results[r]
                /\ Len(response[r].body.errors) = Len(AnalyzedBad(r))

\* a returned result with one outcome flagged true and one flagged false,
\* one new row and no error
C19_Witness ==
    /\ runs = {1}
    /\ pc[1] = "Completed"
    /\ Len(response[1].body.items) = 2
    /\ response[1].body.items[1].stored
    /\ ~response[1].body.items[2].stored
    /\ response[1].body.errors = <<>>
    /\ Len(rows) = PreExisting + 1

====
